---------------------------- MODULE Spec2Model ----------------------------
(***************************************************************************)
(* Model of src/anonymize.py: the span rewriting engine anonymizeSpans,    *)
(* the three Anonymizer classes and the replacement strategies of          *)
(* AllAnonym.                                                              *)
(*                                                                         *)
(* A Python str is a sequence of characters; a character is a one-letter   *)
(* string, except the two non-ASCII representatives "U+00BD" (the vulgar   *)
(* fraction one half: isnumeric, not isdigit, not isalpha) and "U+4E2D"    *)
(* (a CJK ideograph: isalpha, neither upper nor lower case).               *)
(* A Span is a record [start, end, label] (a Python dict).                 *)
(***************************************************************************)
EXTENDS Integers, Sequences, FiniteSets

VARIABLES
    anonymizer,   \* the Anonymizer passed to anonymizeSpans (its class)
    caller_text,  \* the str the caller passed (immutable in Python)
    spans,        \* the caller's list of Span dicts, mutated in place by the loop
    text,         \* anonymizeSpans' local `text`
    offset,       \* anonymizeSpans' local `offset`
    new_spans,    \* anonymizeSpans' local `new_spans`
    pc,           \* position in anonymizeSpans / in the _format_string call
    returned,     \* what the call returned: NoResult or [spans, text]
    input_spans,  \* history: the span list as it was before the call
    log,          \* history: per processed span, the substring read and written
    fmt_text,        \* argument `text` of a direct _format_string call
    fmt_replacement, \* argument `replacement` of a direct _format_string call
    fmt_result       \* result of the direct _format_string call

vars == << anonymizer, caller_text, spans, text, offset, new_spans, pc, returned,
           input_spans, log, fmt_text, fmt_replacement, fmt_result >>

-----------------------------------------------------------------------------
(* Bounds of the model *)

\* longest list of spans passed to anonymizeSpans
MaxSpans == 2

\* longest text of the single-span inputs and of the direct _format_string calls
MaxLen == 3

-----------------------------------------------------------------------------
(* Characters and the str methods the code uses *)

lowers == <<"a", "b", "c", "d", "e", "f", "g", "h", "i", "j", "k", "l", "m", "n", "o", "p", "q", "r", "s", "t", "u", "v", "w", "x", "y", "z">>
uppers == <<"A", "B", "C", "D", "E", "F", "G", "H", "I", "J", "K", "L", "M", "N", "O", "P", "Q", "R", "S", "T", "U", "V", "W", "X", "Y", "Z">>
numbers == <<"0", "1", "2", "3", "4", "5", "6", "7", "8", "9">>

Range(s) == {s[k] : k \in 1..Len(s)}

OneHalf == "U+00BD"
Ideograph == "U+4E2D"

\* char.isnumeric(): decimal digits and every other numeric character
isnumeric(c) == c \in Range(numbers) \cup {OneHalf}

\* char.isdigit()
isdigit(c) == c \in Range(numbers)

\* char.isalpha(): letters of either case and caseless letters
isalpha(c) == c \in Range(lowers) \cup Range(uppers) \cup {Ideograph}

\* char.isupper() / char.islower() on one character
isupper(c) == c \in Range(uppers)
islower(c) == c \in Range(lowers)

IndexOf(s, c) == CHOOSE k \in 1..Len(s) : s[k] = c

char_upper(c) == IF islower(c) THEN uppers[IndexOf(lowers, c)] ELSE c
char_lower(c) == IF isupper(c) THEN lowers[IndexOf(uppers, c)] ELSE c

\* str.upper(), str.lower(), str.capitalize()
str_upper(s) == [k \in 1..Len(s) |-> char_upper(s[k])]
str_lower(s) == [k \in 1..Len(s) |-> char_lower(s[k])]
str_capitalize(s) ==
    [k \in 1..Len(s) |-> IF k = 1 THEN char_upper(s[k]) ELSE char_lower(s[k])]

\* str.isupper(): at least one cased character and no lowercase one
str_isupper(s) ==
    /\ \E k \in 1..Len(s) : isupper(s[k])
    /\ \A k \in 1..Len(s) : ~islower(s[k])

\* str.islower(): at least one cased character and no uppercase one
str_islower(s) ==
    /\ \E k \in 1..Len(s) : islower(s[k])
    /\ \A k \in 1..Len(s) : ~isupper(s[k])

\* str.isnumeric(): non-empty and every character numeric
str_isnumeric(s) == Len(s) > 0 /\ \A k \in 1..Len(s) : isnumeric(s[k])

Min(a, b) == IF a < b THEN a ELSE b
Max(a, b) == IF a > b THEN a ELSE b

\* a slice bound as Python clamps it: negative bounds count from the end
SliceIndex(k, n) == IF k < 0 THEN Max(k + n, 0) ELSE Min(k, n)

\* s[a:b] with 0-based offsets a, b (possibly negative or past the end)
Slice(s, a, b) ==
    LET lo == SliceIndex(a, Len(s))
        hi == SliceIndex(b, Len(s))
    IN  IF lo < hi THEN SubSeq(s, lo + 1, hi) ELSE <<>>

\* s[:b] and s[a:]
SliceTo(s, b) == Slice(s, 0, b)
SliceFrom(s, a) == Slice(s, a, Len(s))

\* random.choice(alphabet): the first or the last character of the alphabet
choice(alphabet) == {alphabet[1], alphabet[Len(alphabet)]}

-----------------------------------------------------------------------------
(* Outcomes of a strategy: a replacement string, or an exception *)

Ok(s) == [raised |-> FALSE, new_text |-> s]
Raised == [raised |-> TRUE, new_text |-> <<>>]


-----------------------------------------------------------------------------
(* The default substitution *)

\* Faulty variant of random_char: the isupper() test is missing, every letter
\* is replaced by a lowercase one.
random_char_ignoring_case(c) ==
    IF isnumeric(c) THEN choice(numbers)
    ELSE IF isalpha(c) THEN choice(lowers)
    ELSE {c}

\* what one character may be replaced by
random_char(c) ==
    IF isnumeric(c) THEN choice(numbers)
    ELSE IF isalpha(c) THEN (IF isupper(c) THEN choice(uppers) ELSE choice(lowers))
    ELSE {c}

RECURSIVE _random_replace(_)
\* the set of strings _random_replace(text) may return
_random_replace(txt) ==
    IF txt = <<>> THEN {<<>>}
    ELSE {<<c>> \o rest : c \in random_char(Head(txt)),
                          rest \in _random_replace(Tail(txt))}

-----------------------------------------------------------------------------
(* The case-style formatter *)

\* Faulty variant of _format_string: the test of the second character is
\* missing, an uppercase first character always selects all caps.
_format_string_always_upper(txt, replacement) ==
    IF Len(txt) = 0 THEN Raised
    ELSE IF isupper(txt[1]) THEN Ok(str_upper(replacement))
         ELSE Ok(replacement)

\* _format_string(text, replacement): text[0] raises IndexError on an empty text
_format_string(txt, replacement) ==
    IF Len(txt) = 0 THEN Raised
    ELSE IF isupper(txt[1])
         THEN IF Len(txt) > 1 /\ isupper(txt[2])
              THEN Ok(str_upper(replacement))
              ELSE Ok(str_capitalize(replacement))
         ELSE Ok(replacement)

-----------------------------------------------------------------------------
(* The external generators: sample values *)

\* self.fake.name()
fake_name == { <<"d", "E">>, <<"M", "a", "x">> }

\* self.fake.street_address()
fake_street_address == { <<"R", "u", "t", "a", " ", "5">> }

\* self.fake.city()
fake_city == { <<"A", "r", "i", "c", "a">> }

\* self.fake.date_time_between(start_date="-2y", end_date="now")
fake_date_time_between ==
    { [day |-> 6, month |-> 11, year |-> 2026],
      [day |-> 31, month |-> 1, year |-> 2025] }

\* random.randint(1000, 9999): the two ends of the range
randint_1000_9999 == {1000, 9999}

RECURSIVE str_int(_)
\* str(n) of a natural number
str_int(n) ==
    IF n < 10 THEN <<numbers[n + 1]>>
    ELSE str_int(n \div 10) \o <<numbers[(n % 10) + 1]>>

\* a number zero-padded to two digits, as strftime's %d and %m
two_digits(n) == <<numbers[(n \div 10) + 1], numbers[(n % 10) + 1]>>

\* date.strftime("%d/%m/%Y")
strftime_dmY(date) ==
    two_digits(date.day) \o <<"/">> \o two_digits(date.month) \o <<"/">>
        \o str_int(date.year)

month_names ==
    << <<"e", "n", "e", "r", "o">>,
       <<"f", "e", "b", "r", "e", "r", "o">>,
       <<"m", "a", "r", "z", "o">>,
       <<"a", "b", "r", "i", "l">>,
       <<"m", "a", "y", "o">>,
       <<"j", "u", "n", "i", "o">>,
       <<"j", "u", "l", "i", "o">>,
       <<"a", "g", "o", "s", "t", "o">>,
       <<"s", "e", "p", "t", "i", "e", "m", "b", "r", "e">>,
       <<"o", "c", "t", "u", "b", "r", "e">>,
       <<"n", "o", "v", "i", "e", "m", "b", "r", "e">>,
       <<"d", "i", "c", "i", "e", "m", "b", "r", "e">> >>

\* babel.dates.format_date(date, "long", locale): "6 de noviembre de 2026" in
\* both es_CL and es
format_date_long(date) ==
    str_int(date.day) \o <<" ", "d", "e", " ">> \o month_names[date.month]
        \o <<" ", "d", "e", " ">> \o str_int(date.year)

-----------------------------------------------------------------------------
(* The replacement strategies of AllAnonym: each yields a set of outcomes *)

_replaceDefault(txt) == {Ok(r) : r \in _random_replace(txt)}

_replacePER(txt) == {_format_string(txt, replacement) : replacement \in fake_name}

_replaceLOC(txt) ==
    LET addresses == IF \E k \in 1..Len(txt) : isdigit(txt[k])
                     THEN fake_street_address
                     ELSE fake_city
    IN  { IF str_isupper(txt) THEN Ok(str_upper(address))
          ELSE IF str_islower(txt) THEN Ok(str_lower(address))
          ELSE Ok(address) : address \in addresses }

_replaceTELEPHONE(txt) ==
    { Ok(SliceTo(txt, 1) \o r.new_text) : r \in _replaceDefault(SliceFrom(txt, 1)) }

_replacePHONE_CL(txt) ==
    { _format_string(txt, <<"+", "5", "6", " ", "9", " ">> \o str_int(a)
                              \o <<" ">> \o str_int(b)) :
        a \in randint_1000_9999, b \in randint_1000_9999 }

_replaceRUT_CL(txt) ==
    { Ok(<<"1", "2", ".", "3", "4", "5", ".", "6", "7", "8", "-", "K">>) }

_replaceLICENSE_PLATE_CL(txt) ==
    { _format_string(txt, SubSeq(letters, 1, 2) \o <<"-">> \o SubSeq(letters, 3, 4)
                              \o <<"-">> \o digits) :
        letters \in [1..4 -> choice(uppers)], digits \in [1..2 -> choice(numbers)] }

_replaceZIP(txt) ==
    IF str_isnumeric(SliceTo(txt, 2))
    THEN { Ok(SliceTo(txt, 2) \o r.new_text) : r \in _replaceDefault(SliceFrom(txt, 2)) }
    ELSE _replaceDefault(txt)

_replaceID(txt) == _replaceDefault(txt)

\* the long format raises when babel fails for es_CL and again for es
_replaceDATE(txt) ==
    IF ~(\E k \in 1..Len(txt) : isalpha(txt[k]))
    THEN { Ok(strftime_dmY(date)) : date \in fake_date_time_between }
    ELSE { Ok(format_date_long(date)) : date \in fake_date_time_between }
             \cup {Raised}

\* text[0] raises IndexError on an empty text
_replaceFINANCIAL(txt) ==
    IF Len(txt) = 0 THEN {Raised}
    ELSE IF isalpha(txt[1])
         THEN { Ok(SliceTo(txt, 2) \o replacement) :
                    replacement \in _random_replace(SliceFrom(txt, 2)) }
         ELSE _replaceDefault(txt)

_replaceCARD(txt) == _replaceDefault(txt)

_replaceVEHICLE(txt) == _replaceDefault(txt)

\* Faulty variant of _replaceDelete: the substring is returned, not deleted.
_replaceDelete_keeping_text(txt) == {Ok(txt)}

_replaceDelete(txt) == {Ok(<<>>)}

\* the keys of self.replace_dict
replace_dict_keys ==
    { "PER", "LOC", "DATE", "ZIP", "ID", "FINANCIAL", "VEHICLE", "CARD", "TELEPHONE",
      "RUT_CL", "PHONE_CL", "LICENSE_PLATE_CL", "OTHER", "SENSITIVE" }

\* self.replace_dict[label](text)
replace_dict(label, txt) ==
    CASE label = "PER" -> _replacePER(txt)
      [] label = "LOC" -> _replaceLOC(txt)
      [] label = "DATE" -> _replaceDATE(txt)
      [] label = "ZIP" -> _replaceZIP(txt)
      [] label = "ID" -> _replaceID(txt)
      [] label = "FINANCIAL" -> _replaceFINANCIAL(txt)
      [] label = "VEHICLE" -> _replaceVEHICLE(txt)
      [] label = "CARD" -> _replaceCARD(txt)
      [] label = "TELEPHONE" -> _replaceTELEPHONE(txt)
      [] label = "RUT_CL" -> _replaceRUT_CL(txt)
      [] label = "PHONE_CL" -> _replacePHONE_CL(txt)
      [] label = "LICENSE_PLATE_CL" -> _replaceLICENSE_PLATE_CL(txt)
      [] label = "OTHER" -> _replaceDefault(txt)
      [] label = "SENSITIVE" -> _replaceDelete(txt)

-----------------------------------------------------------------------------
(* The anonymizers: anonymize(span, text) yields a set of results, each     *)
(* either raised or the pair (span, text) with the substring read and the   *)
(* replacement written.                                                     *)

Result(span, txt, old_text, new_text) ==
    [raised |-> FALSE, span |-> span, text |-> txt,
     old_text |-> old_text, new_text |-> new_text]

Exception(span) ==
    [raised |-> TRUE, span |-> span, text |-> <<>>, old_text |-> <<>>, new_text |-> <<>>]

\* Faulty variant of splice: the tail starts one character late.
splice_skipping_one(txt, span, new_text) ==
    SliceTo(txt, span.start) \o new_text \o SliceFrom(txt, span.end + 1)

\* text[:start] + new_text + text[end:]
splice(txt, span, new_text) ==
    SliceTo(txt, span.start) \o new_text \o SliceFrom(txt, span.end)

\* Faulty variant of resized: the copy keeps the end of the span it copies.
resized_keeping_end(span, new_text) == span

\* new_span = span.copy(); new_span["end"] = new_span["start"] + len(new_text)
resized(span, new_text) == [span EXCEPT !.end = span.start + Len(new_text)]

RandomAnonym_anonymize(span, txt) ==
    LET old_text == Slice(txt, span.start, span.end)
    IN  { Result(span, splice(txt, span, new_text), old_text, new_text) :
              new_text \in _random_replace(old_text) }

\* f"<{label}>"
label_chars(label) ==
    CASE label = "PER" -> <<"P", "E", "R">>
      [] label = "LOC" -> <<"L", "O", "C">>
      [] label = "DATE" -> <<"D", "A", "T", "E">>
      [] label = "ZIP" -> <<"Z", "I", "P">>
      [] label = "ID" -> <<"I", "D">>
      [] label = "FINANCIAL" -> <<"F", "I", "N", "A", "N", "C", "I", "A", "L">>
      [] label = "VEHICLE" -> <<"V", "E", "H", "I", "C", "L", "E">>
      [] label = "CARD" -> <<"C", "A", "R", "D">>
      [] label = "TELEPHONE" -> <<"T", "E", "L", "E", "P", "H", "O", "N", "E">>
      [] label = "RUT_CL" -> <<"R", "U", "T", "_", "C", "L">>
      [] label = "PHONE_CL" -> <<"P", "H", "O", "N", "E", "_", "C", "L">>
      [] label = "LICENSE_PLATE_CL" ->
             <<"L", "I", "C", "E", "N", "S", "E", "_", "P", "L", "A", "T", "E", "_", "C", "L">>
      [] label = "OTHER" -> <<"O", "T", "H", "E", "R">>
      [] label = "SENSITIVE" -> <<"S", "E", "N", "S", "I", "T", "I", "V", "E">>
      [] label = "MISC" -> <<"M", "I", "S", "C">>

LabelAnonym_anonymize(span, txt) ==
    LET new_text == <<"<">> \o label_chars(span.label) \o <<">">>
    IN  { Result(resized(span, new_text), splice(txt, span, new_text),
                 Slice(txt, span.start, span.end), new_text) }

AllAnonym_anonymize(span, txt) ==
    LET old_text == Slice(txt, span.start, span.end)
        outcomes == IF span.label \notin replace_dict_keys
                    THEN _replaceDefault(old_text)
                    ELSE replace_dict(span.label, old_text)
    IN  { IF o.raised THEN Exception(span)
          ELSE Result(resized(span, o.new_text), splice(txt, span, o.new_text),
                      old_text, o.new_text) : o \in outcomes }

\* anonymizer.anonymize(span, text): dispatch on the anonymizer's class
anonymize(a, span, txt) ==
    CASE a = "RandomAnonym" -> RandomAnonym_anonymize(span, txt)
      [] a = "LabelAnonym" -> LabelAnonym_anonymize(span, txt)
      [] a = "AllAnonym" -> AllAnonym_anonymize(span, txt)

-----------------------------------------------------------------------------
(* The inputs of anonymizeSpans *)

NoResult == "NoResult"

Anonymizers == {"RandomAnonym", "LabelAnonym", "AllAnonym"}

\* every key of replace_dict and one label that is not a key
Labels == replace_dict_keys \cup {"MISC"}

\* the labels of the multi-span inputs: a name, a constant longer value, a
\* deletion, and a same-length substitution
DocumentLabels == {"PER", "RUT_CL", "SENSITIVE", "ID"}

\* the text of the multi-span inputs: three different characters, so that a
\* character out of place shows
Documents == { <<"A", "b", "1">> }

\* one character of each class the code tells apart
InputChars == {"A", "a", "1", "-", OneHalf, Ideograph}

\* the strings of at most n characters of S
Strings(S, n) == UNION {[1..k -> S] : k \in 0..n}

\* the lists of at most n elements of S
Lists(S, n) == UNION {[1..k -> S] : k \in 0..n}

\* well-formed spans [start, end) inside a text of n characters
WellFormedSpans(n, labels) ==
    { sp \in [start : 0..n, end : 0..n, label : labels] : sp.start <= sp.end }

\* any span, malformed ones (end < start, start or end past the text) included
AnySpans(n, labels) == [start : 0..(n + 1), end : 0..(n + 1), label : labels]

\* the data model's order: ascending start
Ascending(sps) == \A k \in 1..(Len(sps) - 1) : sps[k].start <= sps[k + 1].start

-----------------------------------------------------------------------------
(* anonymizeSpans *)

\* The inputs are of three kinds: several well-formed spans in ascending order
\* of start over a document, under each anonymizer; one span of any label over
\* the whole of any short text, under AllAnonym (whose strategies branch on
\* the characters they read); one span, malformed or not, over a document.
InitInput ==
    \/ /\ anonymizer \in Anonymizers
       /\ caller_text \in Documents
       /\ spans \in Lists(WellFormedSpans(Len(caller_text), DocumentLabels), MaxSpans)
       /\ Ascending(spans)
    \/ /\ anonymizer = "AllAnonym"
       /\ caller_text \in Strings(InputChars, MaxLen)
       /\ \E l \in Labels :
            spans = << [start |-> 0, end |-> Len(caller_text), label |-> l] >>
    \/ /\ anonymizer \in Anonymizers
       /\ caller_text \in Documents
       /\ \E sp \in AnySpans(Len(caller_text), DocumentLabels) : spans = <<sp>>

\* new_spans = []; offset = 0
Init ==
    /\ InitInput
    /\ text = caller_text
    /\ input_spans = spans
    /\ offset = 0
    /\ new_spans = <<>>
    /\ pc = "loop"
    /\ returned = NoResult
    /\ log = <<>>
    /\ fmt_text = <<>>
    /\ fmt_replacement = <<>>
    /\ fmt_result = NoResult

\* the index (from 1) of the span the loop is at
current == Len(new_spans) + 1

\* span["start"] += offset; span["end"] += offset
shifted(span, off) == [span EXCEPT !.start = @ + off, !.end = @ + off]

\* Faulty variant of next_offset: the delta is taken from the span's start,
\* not from its end.
next_offset_from_start(off, new_span, span) == off + new_span.end - span.start

\* offset += new_span["end"] - span["end"]
next_offset(off, new_span, span) == off + new_span.end - span.end

\* Faulty variant of appended: the new span is put at the front of the list.
prepended(list, new_span) == <<new_span>> \o list

\* new_spans.append(new_span)
appended(list, new_span) == Append(list, new_span)

\* the head of an iteration: the span of the caller's list is shifted in place
Shift ==
    /\ pc = "loop"
    /\ current <= Len(spans)
    /\ spans' = [spans EXCEPT ![current] = shifted(@, offset)]
    /\ pc' = "call"
    /\ UNCHANGED << anonymizer, caller_text, text, offset, new_spans, returned,
                    input_spans, log, fmt_text, fmt_replacement, fmt_result >>

\* anonymizer.anonymize(span, text) returns: the rest of the iteration
Anonymize ==
    /\ pc = "call"
    /\ \E r \in anonymize(anonymizer, spans[current], text) :
         /\ ~r.raised
         /\ text' = r.text
         /\ offset' = next_offset(offset, r.span, spans[current])
         /\ new_spans' = appended(new_spans, r.span)
         /\ log' = Append(log, [old_text |-> r.old_text, new_text |-> r.new_text])
    /\ pc' = "loop"
    /\ UNCHANGED << anonymizer, caller_text, spans, returned, input_spans,
                    fmt_text, fmt_replacement, fmt_result >>

\* anonymizer.anonymize(span, text) raises: nothing catches it
AnonymizeRaises ==
    /\ pc = "call"
    /\ \E r \in anonymize(anonymizer, spans[current], text) : r.raised
    /\ pc' = "raised"
    /\ UNCHANGED << anonymizer, caller_text, spans, text, offset, new_spans, returned,
                    input_spans, log, fmt_text, fmt_replacement, fmt_result >>

\* return (new_spans, text)
Return ==
    /\ pc = "loop"
    /\ current > Len(spans)
    /\ returned' = [spans |-> new_spans, text |-> text]
    /\ pc' = "done"
    /\ UNCHANGED << anonymizer, caller_text, spans, text, offset, new_spans,
                    input_spans, log, fmt_text, fmt_replacement, fmt_result >>

Next == Shift \/ Anonymize \/ AnonymizeRaises \/ Return

Spec == Init /\ [][Next]_vars

-----------------------------------------------------------------------------
(* A direct call of the static method _format_string *)

\* the replacements handed to _format_string
FormatReplacements == { <<>>, <<"d", "E">>, <<"M", "a", "x">>, <<"1", "-", "b">> }

InitFormat ==
    /\ fmt_text \in Strings(InputChars, MaxLen)
    /\ fmt_replacement \in FormatReplacements
    /\ fmt_result = NoResult
    /\ pc = "format"
    /\ anonymizer = "AllAnonym"
    /\ caller_text = <<>>
    /\ text = <<>>
    /\ spans = <<>>
    /\ input_spans = <<>>
    /\ offset = 0
    /\ new_spans = <<>>
    /\ returned = NoResult
    /\ log = <<>>

FormatReturns ==
    /\ pc = "format"
    /\ ~_format_string(fmt_text, fmt_replacement).raised
    /\ fmt_result' = _format_string(fmt_text, fmt_replacement).new_text
    /\ pc' = "format_done"
    /\ UNCHANGED << anonymizer, caller_text, spans, text, offset, new_spans, returned,
                    input_spans, log, fmt_text, fmt_replacement >>

FormatRaises ==
    /\ pc = "format"
    /\ _format_string(fmt_text, fmt_replacement).raised
    /\ pc' = "format_raised"
    /\ UNCHANGED << anonymizer, caller_text, spans, text, offset, new_spans, returned,
                    input_spans, log, fmt_text, fmt_replacement, fmt_result >>

NextFormat == FormatReturns \/ FormatRaises

SpecFormat == InitFormat /\ [][NextFormat]_vars

-----------------------------------------------------------------------------
(* Vocabulary of the properties *)

\* every span lies inside the text: 0 <= start <= end <= len(text)
InsideText(sps, t) ==
    \A k \in 1..Len(sps) : 0 <= sps[k].start /\ sps[k].start <= sps[k].end
                              /\ sps[k].end <= Len(t)

\* two half-open intervals overlap
Overlap(a, b) == a.start < b.end /\ b.start < a.end

NonOverlapping(sps) ==
    \A j \in 1..Len(sps) : \A k \in 1..Len(sps) : j < k => ~Overlap(sps[j], sps[k])

\* every span ends no later than the next one starts
Sequential(sps) == \A k \in 1..(Len(sps) - 1) : sps[k].end <= sps[k + 1].start

\* end < start, or start beyond the text
Malformed(sp, t) == sp.end < sp.start \/ sp.start > Len(t)

\* every emitted span delimits the replacement written for it
SpansDelimitReplacements ==
    \A k \in 1..Len(new_spans) :
        Slice(text, new_spans[k].start, new_spans[k].end) = log[k].new_text

\* the text outside the spans is the caller's text outside the input spans
OutsideUnchanged ==
    LET n == Len(input_spans)
    IN  IF n = 0 THEN text = caller_text
        ELSE /\ SliceTo(text, new_spans[1].start)
                    = SliceTo(caller_text, input_spans[1].start)
             /\ \A k \in 1..(n - 1) :
                    Slice(text, new_spans[k].end, new_spans[k + 1].start)
                        = Slice(caller_text, input_spans[k].end, input_spans[k + 1].start)
             /\ SliceFrom(text, new_spans[n].end)
                    = SliceFrom(caller_text, input_spans[n].end)

RECURSIVE SumDelta(_)
\* the sum, over the first n spans, of the replacement's length minus the
\* span's original length
SumDelta(n) ==
    IF n = 0 THEN 0
    ELSE SumDelta(n - 1) + Len(log[n].new_text)
             - (input_spans[n].end - input_spans[n].start)

\* the labels AllAnonym resolves to the default substitution
DefaultLabels == (Labels \ replace_dict_keys) \cup {"ID", "CARD", "VEHICLE", "OTHER"}

\* the character classes of the ASCII alphabets
DecimalDigit(c) == c \in Range(numbers)
UppercaseLetter(c) == c \in Range(uppers)
LowercaseLetter(c) == c \in Range(lowers)

-----------------------------------------------------------------------------
(* C1 *)

\* C1 as stated, for the strategies of AllAnonym: for spans in ascending order
\* of start, inside the text and pairwise non-overlapping, every emitted span
\* delimits its replacement in the returned text.
C1_AsStated ==
    (pc = "done" /\ anonymizer = "AllAnonym" /\ Ascending(input_spans)
        /\ InsideText(input_spans, caller_text) /\ NonOverlapping(input_spans))
    => SpansDelimitReplacements

\* C1, amended: when every input span lies inside the text and ends no later
\* than the next one starts, then after anonymizeSpans returns every emitted
\* span k satisfies final_text[start_k : end_k] == the replacement written for
\* span k, for all emitted spans at once.
C1_OffsetCorrectness ==
    (pc = "done" /\ InsideText(input_spans, caller_text) /\ Sequential(input_spans))
    => SpansDelimitReplacements

\* two spans, the first replaced by a longer string and the second, not empty,
\* by a shorter one
C1_Witness ==
    /\ pc = "done"
    /\ anonymizer = "AllAnonym"
    /\ Len(input_spans) = 2
    /\ InsideText(input_spans, caller_text) /\ Sequential(input_spans)
    /\ Len(log[1].new_text) > Len(log[1].old_text)
    /\ Len(log[2].old_text) > 0
    /\ Len(log[2].new_text) < Len(log[2].old_text)

-----------------------------------------------------------------------------
(* C2 *)

\* C2 as stated, for the strategies of AllAnonym: for spans in ascending order
\* of start, inside the text and pairwise non-overlapping, the returned text
\* outside the emitted spans is the original text outside the input spans.
C2_AsStated ==
    (pc = "done" /\ anonymizer = "AllAnonym" /\ Ascending(input_spans)
        /\ InsideText(input_spans, caller_text) /\ NonOverlapping(input_spans))
    => OutsideUnchanged

\* C2, amended: when every input span lies inside the text and ends no later
\* than the next one starts, the returned text before the first emitted span,
\* between consecutive emitted spans and after the last emitted span equals the
\* original text before the first, between consecutive and after the last
\* input span.
C2_OnlySpansChange ==
    (pc = "done" /\ InsideText(input_spans, caller_text) /\ Sequential(input_spans))
    => OutsideUnchanged

\* two spans with text before, between and after them, both replaced by a
\* string of another length
C2_Witness ==
    /\ pc = "done"
    /\ Len(input_spans) = 2
    /\ InsideText(input_spans, caller_text) /\ Sequential(input_spans)
    /\ input_spans[1].start = 1 /\ input_spans[1].end = 1
    /\ input_spans[2].start = 2 /\ input_spans[2].end = 2
    /\ Len(log[1].new_text) > 0 /\ Len(log[2].new_text) > 0

-----------------------------------------------------------------------------
(* C3 *)

\* C3: after anonymizeSpans returns, every Span of the caller's list still has
\* the start and end it had before the call.
C3_InputNotMutated == pc = "done" => spans = input_spans

-----------------------------------------------------------------------------
(* C4 *)

\* C4: when span k is handed to the anonymizer, the running offset is the sum
\* over the earlier spans of (replacement length - original span length), and
\* span k's start and end are its original start and end plus that sum.
C4_OffsetAccumulator ==
    pc = "call" =>
        /\ offset = SumDelta(current - 1)
        /\ spans[current].start = input_spans[current].start + SumDelta(current - 1)
        /\ spans[current].end = input_spans[current].end + SumDelta(current - 1)

\* the second span is handed over after the first, one character long, was
\* replaced by twelve characters: it is applied eleven characters further
C4_Witness ==
    /\ pc = "call"
    /\ current = 2
    /\ Len(log[1].old_text) = 1 /\ Len(log[1].new_text) = 12
    /\ input_spans[2].start = 2 /\ input_spans[2].end = 3
    /\ spans[2].start = 13 /\ spans[2].end = 14

-----------------------------------------------------------------------------
(* C5 *)

\* C5: when a strategy fails, the pass is aborted, nothing is returned, and the
\* spans the caller holds still address the text the caller holds.
C5_FailureAbortsConsistently ==
    pc = "raised" => (returned = NoResult /\ spans = input_spans)

-----------------------------------------------------------------------------
(* C6 *)

\* C6: for a malformed span (end < start, or start beyond the text) the engine
\* never returns a rewritten text.
C6_MalformedSpanRejected ==
    (\E k \in 1..Len(input_spans) : Malformed(input_spans[k], caller_text))
    => pc # "done"

-----------------------------------------------------------------------------
(* C7 *)

\* C7: the returned span list has the length of the input list and its i-th
\* span carries the label of the i-th input span.
C7_OrderPreserved ==
    pc = "done" =>
        /\ Len(returned.spans) = Len(input_spans)
        /\ \A k \in 1..Len(input_spans) : returned.spans[k].label = input_spans[k].label

\* two spans of different labels, the first one deleted
C7_Witness ==
    /\ pc = "done"
    /\ Len(input_spans) = 2
    /\ input_spans[1].label = "SENSITIVE" /\ input_spans[2].label = "PER"
    /\ Len(log[1].old_text) > 0 /\ log[1].new_text = <<>>

-----------------------------------------------------------------------------
(* C8 *)

C8_Step ==
    /\ anonymizer = "AllAnonym" =>
           \A k \in 1..Len(new_spans') : new_spans'[k].end >= new_spans'[k].start
    /\ (pc = "call" /\ anonymizer = "AllAnonym" /\ spans[current].label = "SENSITIVE") =>
           LET s == spans[current].start
               e == spans[current].end
           IN  /\ pc' = "loop"
               /\ log'[current].new_text = <<>>
               /\ new_spans'[current].start = s
               /\ new_spans'[current].end = s
               /\ text' = SliceTo(text, s) \o SliceFrom(text, e)
               /\ offset' = offset - (e - s)

\* C8: AllAnonym replaces a SENSITIVE span [s, e) by the empty string: the
\* emitted span has start = end = s, the text becomes text[:s] + text[e:], the
\* running offset decreases by e - s; and no emitted span has end < start.
C8_Deletion == [][C8_Step]_vars

\* the middle character of the document deleted: "Ab1" becomes "A1" and the
\* emitted span is (1, 1)
C8_Witness ==
    /\ pc = "done"
    /\ anonymizer = "AllAnonym"
    /\ caller_text = <<"A", "b", "1">>
    /\ input_spans = << [start |-> 1, end |-> 2, label |-> "SENSITIVE"] >>
    /\ returned.text = <<"A", "1">>
    /\ returned.spans = << [start |-> 1, end |-> 1, label |-> "SENSITIVE"] >>
    /\ offset = -1

-----------------------------------------------------------------------------
(* C9 *)

\* the step in which AllAnonym applies the default substitution
DefaultStep ==
    pc = "call" /\ anonymizer = "AllAnonym" /\ spans[current].label \in DefaultLabels

C9_StepAsStated ==
    DefaultStep =>
        LET old == log'[current].old_text
            new == log'[current].new_text
        IN  /\ pc' = "loop"
            /\ Len(new) = Len(old)
            /\ \A p \in 1..Len(old) :
                   /\ DecimalDigit(old[p]) => DecimalDigit(new[p])
                   /\ UppercaseLetter(old[p]) => UppercaseLetter(new[p])
                   /\ LowercaseLetter(old[p]) => LowercaseLetter(new[p])
                   /\ ~(DecimalDigit(old[p]) \/ UppercaseLetter(old[p])
                            \/ LowercaseLetter(old[p])) => new[p] = old[p]
            /\ new_spans'[current] = spans[current]
            /\ offset' = offset

C9_StepAmended ==
    DefaultStep =>
        LET old == log'[current].old_text
            new == log'[current].new_text
            s == spans[current].start
            e == spans[current].end
        IN  /\ pc' = "loop"
            /\ Len(new) = Len(old)
            /\ \A p \in 1..Len(old) :
                   /\ isnumeric(old[p]) => DecimalDigit(new[p])
                   /\ UppercaseLetter(old[p]) => UppercaseLetter(new[p])
                   /\ (isalpha(old[p]) /\ ~UppercaseLetter(old[p]))
                          => LowercaseLetter(new[p])
                   /\ ~(isnumeric(old[p]) \/ isalpha(old[p])) => new[p] = old[p]
            /\ (0 <= s /\ s <= e /\ e <= Len(text)) =>
                   (new_spans'[current] = spans[current] /\ offset' = offset)

-----------------------------------------------------------------------------
(* C10 *)

\* C10: _format_string(original, replacement) is the replacement upper-cased
\* when original starts with two uppercase characters; else the replacement
\* with its first character capitalized and the rest lower-cased when
\* original starts with an uppercase character; else the replacement
\* unchanged; an empty replacement comes back empty, without an index error.
C10_FormatString ==
    LET t == fmt_text
        r == fmt_replacement
        out == fmt_result
    IN  /\ (pc = "format_done" /\ UppercaseLetter(t[1]) /\ Len(t) >= 2
               /\ UppercaseLetter(t[2])) =>
              (Len(out) = Len(r) /\ \A p \in 1..Len(r) : out[p] = char_upper(r[p]))
        /\ (pc = "format_done" /\ UppercaseLetter(t[1])
               /\ ~(Len(t) >= 2 /\ UppercaseLetter(t[2]))) =>
              /\ Len(out) = Len(r)
              /\ Len(r) > 0 => out[1] = char_upper(r[1])
              /\ \A p \in 2..Len(r) : out[p] = char_lower(r[p])
        /\ (pc = "format_done" /\ ~UppercaseLetter(t[1])) => out = r
        /\ (pc = "format_done" /\ r = <<>>) => out = <<>>
        /\ (pc = "format_raised") => t = <<>>

\* a one-character uppercase original: "dE" comes back capitalized, "De"
C10_Witness ==
    /\ pc = "format_done"
    /\ fmt_text = <<"A">>
    /\ fmt_replacement = <<"d", "E">>
    /\ fmt_result = <<"D", "e">>

=============================================================================
